---- MODULE Spec2Model ----
(***************************************************************************)
(* Model of update_backup_version.py: the format-preserving, atomic        *)
(* read-modify-write of a property list (update_plist and its helpers)     *)
(* and the read-only traversal read_versions.                              *)
(*                                                                         *)
(* A plist value is a function from key paths (sequences of keys) to       *)
(* nodes; the empty path is the value itself.  A node is a mapping         *)
(* ("dict"), a text ("str", with its characters) or any other scalar       *)
(* ("int").  Texts are sequences of characters so that the XML writer's    *)
(* line-ending conversion is computed, not assumed.                        *)
(*                                                                         *)
(* A file is a record: whether it exists, its first 8 bytes (header), the  *)
(* document its bytes encode (body), whether the bytes are a complete      *)
(* serialization (whole) and its permission bits (mode).                   *)
(***************************************************************************)
EXTENDS Integers, Sequences, FiniteSets, TLC

VARIABLES
    fs,        \* the bundle directory: "path", "bak" (path + ".bak"), "tmp" (this call's mkstemp file)
    leaked,    \* temporary files left in the directory by earlier calls
    pc,        \* position of the running update_plist / atomic_write_plist
    args,      \* arguments of the current (or last) update_plist call
    fmt,       \* update_plist local: detected format
    data,      \* update_plist local: the loaded document
    changed,   \* update_plist local: the change flag
    exc,       \* exception pending inside atomic_write_plist's try block
    result,    \* how the last update_plist call ended
    pre,       \* the directory as it was when the current call started
    ncalls,    \* number of update_plist calls made
    prev,      \* how the previous call ended if it had the current call's arguments, else "differs"
    fs0,       \* the directory as it was before the first call
    bakFailed, \* shutil.copy2 of the current call raised
    tmpMade,   \* mkstemp of the current call succeeded
    rmFailed,  \* os.remove of the cleanup raised (and was swallowed)
    nfaults,   \* number of I/O errors the environment has raised
    rd         \* outcome of the last read_versions call

vars == <<fs, leaked, pc, args, fmt, data, changed, exc, result, pre, ncalls,
          prev, fs0, bakFailed, tmpMade, rmFailed, nfaults, rd>>

MaxCalls == 2
MaxFaults == 2

\* ------------------------------------------------------------ documents

DictNode == [kind |-> "dict", s |-> <<>>]
StrNode(s) == [kind |-> "str", s |-> s]
IntNode == [kind |-> "int", s |-> <<>>]

EmptyDict == (<<>> :> DictNode)

\* The text values used as targets and as file contents.
V16 == <<"1", "6", ".", "0">>
V17 == <<"1", "7", ".", "0">>
VCR == <<"1", "7", "\r", "0">>
B20 == <<"2", "0", "A">>
B21 == <<"2", "1", "A">>

\* The value stored under path p of document d (p \in DOMAIN d).
SubTree(d, p) ==
    [q \in {SubSeq(r, Len(p) + 1, Len(r)) :
              r \in {r \in DOMAIN d : Len(r) >= Len(p) /\ SubSeq(r, 1, Len(p)) = p}}
        |-> d[p \o q]]

IsPrefix(p, r) == Len(r) >= Len(p) /\ SubSeq(r, 1, Len(p)) = p

\* d with the entry at path p (and everything below it) replaced by node n.
Assign(d, p, n) ==
    [r \in {r \in DOMAIN d : ~IsPrefix(p, r)} \cup {p}
        |-> IF r = p THEN n ELSE d[r]]

\* ------------------------------------------------------------ plistlib

FMT_XML == "FMT_XML"
FMT_BINARY == "FMT_BINARY"

BinaryMagic == "bplist00"
XmlProlog == "<?xml ve"

\* plistlib's XML writer (_escape): "\r\n" and "\r" are written as "\n".
\* The markup escapes (&, <, >) are undone by the parser and are left out.
RECURSIVE Escape(_)
Escape(s) ==
    IF s = <<>> THEN <<>>
    ELSE IF Head(s) = "\r"
         THEN <<"\n">> \o Escape(IF Len(s) > 1 /\ s[2] = "\n" THEN Tail(Tail(s)) ELSE Tail(s))
         ELSE <<Head(s)>> \o Escape(Tail(s))

\* The first 8 bytes plistlib.dump writes in format f.
HeaderOf(f) == IF f = FMT_BINARY THEN BinaryMagic ELSE XmlProlog

\* The document the bytes written by plistlib.dump(d, fmt=f) encode.
BodyOf(d, f) ==
    IF f = FMT_BINARY THEN d
    ELSE [p \in DOMAIN d |->
            IF d[p].kind = "str" THEN StrNode(Escape(d[p].s)) ELSE d[p]]

NoFile == [exists |-> FALSE, header |-> "", body |-> EmptyDict, whole |-> FALSE, mode |-> "----"]

MkFile(header, body, whole, mode) ==
    [exists |-> TRUE, header |-> header, body |-> body, whole |-> whole, mode |-> mode]

\* plistlib.load: the header selects the parser; truncated or foreign bytes
\* do not parse.
Parses(f) == f.whole /\ f.header \in {BinaryMagic, XmlProlog}

\* ------------------------------------------------------------ pure helpers

\* Faulty variant: the signature is not looked at.
DetectAlwaysXml(f) == FMT_XML

\* detect_plist_format: the first 8 bytes decide.
detect_plist_format(f) == IF f.header = BinaryMagic THEN FMT_BINARY ELSE FMT_XML

\* load_plist
load_plist(f) == f.body

\* One iteration state of ensure_path_dict: the document so far, and whether
\* the walk hit a non-dict.  keys[1..i-1] has been descended.
RECURSIVE EnsureWalk(_, _, _)
EnsureWalk(d, keys, i) ==
    IF i > Len(keys) THEN [ok |-> TRUE, data |-> d]
    ELSE LET p  == SubSeq(keys, 1, i)
             d1 == IF p \notin DOMAIN d THEN d @@ (p :> DictNode) ELSE d
         IN  IF d1[p].kind # "dict"
             THEN [ok |-> FALSE, data |-> d1]
             ELSE EnsureWalk(d1, keys, i + 1)

\* Faulty variant: a non-dict on the way is silently replaced by a mapping.
RECURSIVE EnsureWalkOverwrite(_, _, _)
EnsureWalkOverwrite(d, keys, i) ==
    IF i > Len(keys) THEN [ok |-> TRUE, data |-> d]
    ELSE LET p  == SubSeq(keys, 1, i)
             d1 == IF p \notin DOMAIN d \/ d[p].kind # "dict"
                   THEN Assign(d, p, DictNode) ELSE d
         IN  EnsureWalkOverwrite(d1, keys, i + 1)

EnsureOverwrite(root, path_keys) == EnsureWalkOverwrite(root, path_keys, 1)

\* ensure_path_dict: ok is FALSE where the source raises ValueError.
ensure_path_dict(root, path_keys) == EnsureWalk(root, path_keys, 1)

\* Faulty variants: the comparison is skipped; the flag is never raised.
SetKeyAlways(d, at, key, value) ==
    [data |-> Assign(d, at \o <<key>>, StrNode(value)), changed |-> TRUE]
SetKeyNoFlag(d, at, key, value) ==
    [data |-> Assign(d, at \o <<key>>, StrNode(value)), changed |-> FALSE]

\* set_key_if_changed on the mapping at path `at` of document d.
set_key_if_changed(d, at, key, value) ==
    LET p == at \o <<key>>
    IN  IF p \in DOMAIN d /\ d[p] = StrNode(value)
        THEN [data |-> d, changed |-> FALSE]
        ELSE [data |-> Assign(d, p, StrNode(value)), changed |-> TRUE]

\* key_names: a dict with "product" and "build", or None (the empty dict here).
NoNames == [k \in {} |-> ""]
ManifestNames == ("product" :> "ProductVersion" @@ "build" :> "BuildVersion")

prod_key(key_names) ==
    IF "product" \in DOMAIN key_names THEN key_names["product"] ELSE "Product Version"
build_key(key_names) ==
    IF "build" \in DOMAIN key_names THEN key_names["build"] ELSE "Build Version"

\* read_versions' traversal (lines 156-158): the document after the walk and
\* the node the walk ends at.  node.get(k, {}) yields a fresh empty dict when k
\* is missing or node is no dict; nothing is stored into the document.
RECURSIVE ReadWalkFrom(_, _, _, _)
ReadWalkFrom(d, node, keys, i) ==
    IF i > Len(keys) THEN [data |-> d, node |-> node]
    ELSE LET k == keys[i]
             n == IF node[<<>>].kind = "dict" /\ <<k>> \in DOMAIN node
                  THEN SubTree(node, <<k>>)
                  ELSE EmptyDict
         IN  ReadWalkFrom(d, n, keys, i + 1)

\* Faulty variant: the read walks the way the write path does.
ReadWalkCreating(d, keys) ==
    LET e == EnsureWalkOverwrite(d, keys, 1)
    IN  [data |-> e.data, node |-> SubTree(e.data, keys)]

ReadWalk(d, keys) == ReadWalkFrom(d, d, keys, 1)

NoneValue == (<<>> :> [kind |-> "none", s |-> <<>>])

\* dict.get(k): the value under k, or None.
DictGet(node, k) == IF <<k>> \in DOMAIN node THEN SubTree(node, <<k>>) ELSE NoneValue

\* Lines 159-169: the two values read at the node the walk ended at.
ReadLeaves(node, allow_alias) ==
    IF node[<<>>].kind # "dict" THEN [pv |-> NoneValue, bv |-> NoneValue]
    ELSE LET pv0 == DictGet(node, "Product Version")
             bv0 == DictGet(node, "Build Version")
         IN  [pv |-> IF allow_alias /\ pv0 = NoneValue
                     THEN DictGet(node, "ProductVersion") ELSE pv0,
              bv |-> IF allow_alias /\ bv0 = NoneValue
                     THEN DictGet(node, "BuildVersion") ELSE bv0]

\* ------------------------------------------------------------ inputs

InitMode == "0640"      \* permission bits of the bundle's plist
DefaultMode == "0644"   \* bits of a file created by open() under the umask
TmpMode == "0600"       \* bits mkstemp gives its file

KeyPaths == {<<>>, <<"Lockdown">>, <<"Lockdown", "Lockdown">>}
Products == {V17, VCR}
Builds == {B21}
KeyNameChoices == {NoNames, ManifestNames}

\* The caller's arguments: the Manifest's key names under its Lockdown
\* dictionary (as main passes them), the default key names elsewhere.
ArgSets ==
    {a \in [product_version : Products, build_version : Builds, make_backup : BOOLEAN,
            key_path : KeyPaths, key_names : KeyNameChoices] :
        a.key_names = ManifestNames <=> a.key_path = <<"Lockdown">>}

NoArgs ==
    [product_version |-> <<>>, build_version |-> <<>>, make_backup |-> FALSE,
     key_path |-> <<>>, key_names |-> NoNames]

\* Documents a bundle can hold.
DocPartial ==
    (<<>> :> DictNode
     @@ <<"Product Version">> :> StrNode(V16)
     @@ <<"Build Version">> :> StrNode(B21)
     @@ <<"Lockdown">> :> DictNode
     @@ <<"Lockdown", "ProductVersion">> :> StrNode(V17)
     @@ <<"Lockdown", "BuildVersion">> :> StrNode(B20))
DocMatching ==
    (<<>> :> DictNode
     @@ <<"Product Version">> :> StrNode(V17)
     @@ <<"Build Version">> :> StrNode(B21)
     @@ <<"Lockdown">> :> DictNode
     @@ <<"Lockdown", "ProductVersion">> :> StrNode(V17)
     @@ <<"Lockdown", "BuildVersion">> :> StrNode(B21)
     @@ <<"Lockdown", "Lockdown">> :> IntNode)
DocCollide ==
    (<<>> :> DictNode
     @@ <<"Lockdown">> :> StrNode(V16)
     @@ <<"ProductVersion">> :> IntNode
     @@ <<"BuildVersion">> :> StrNode(B21))
DocOld ==
    (<<>> :> DictNode
     @@ <<"Product Version">> :> StrNode(V16)
     @@ <<"Build Version">> :> StrNode(B20))

InitDocs == {DocPartial, DocMatching, DocCollide, EmptyDict}

InitFiles ==
    {MkFile(HeaderOf(f), BodyOf(d, f), TRUE, InitMode) : d \in InitDocs, f \in {FMT_XML, FMT_BINARY}}
    \cup {MkFile("garbage!", EmptyDict, FALSE, InitMode), NoFile}

InitBaks == {NoFile, MkFile(XmlProlog, DocOld, TRUE, InitMode)}

NoRead ==
    [status |-> "none", data |-> EmptyDict, pv |-> NoneValue, bv |-> NoneValue,
     key_path |-> <<>>, allow_alias |-> FALSE]

\* ------------------------------------------------------------ state machine

Init ==
    /\ fs \in [path : InitFiles, bak : InitBaks, tmp : {NoFile}]
    /\ leaked = {}
    /\ pc = "idle"
    /\ args = NoArgs
    /\ fmt = FMT_XML
    /\ data = EmptyDict
    /\ changed = FALSE
    /\ exc = FALSE
    /\ result = "none"
    /\ pre = fs
    /\ ncalls = 0
    /\ prev = "differs"
    /\ fs0 = fs
    /\ bakFailed = FALSE
    /\ tmpMade = FALSE
    /\ rmFailed = FALSE
    /\ nfaults = 0
    /\ rd = NoRead

\* The environment raises an I/O error in the running step.
Fault ==
    /\ nfaults < MaxFaults
    /\ nfaults' = nfaults + 1

\* update_plist ends (return or raise): its locals are dropped.
Leave(r) ==
    /\ pc' = "done"
    /\ result' = r
    /\ fmt' = FMT_XML
    /\ data' = EmptyDict
    /\ changed' = FALSE
    /\ exc' = FALSE

\* A caller invokes update_plist(path, ...).  A temporary file an earlier call
\* left behind keeps its own name; mkstemp will pick a fresh one.
Call(a) ==
    /\ pc \in {"idle", "done"}
    /\ ncalls < MaxCalls
    /\ ncalls' = ncalls + 1
    /\ args' = a
    /\ prev' = IF a = args THEN result ELSE "differs"
    /\ bakFailed' = FALSE
    /\ leaked' = IF fs.tmp.exists THEN leaked \cup {fs.tmp} ELSE leaked
    /\ fs' = [fs EXCEPT !.tmp = NoFile]
    /\ pre' = fs'
    /\ pc' = "detect"
    /\ result' = "running"
    /\ tmpMade' = FALSE
    /\ rmFailed' = FALSE
    /\ rd' = NoRead
    /\ UNCHANGED <<fmt, data, changed, exc, fs0, nfaults>>

\* line 103: fmt = detect_plist_format(path)
Detect ==
    /\ pc = "detect"
    /\ IF fs.path.exists
       THEN /\ fmt' = detect_plist_format(fs.path)
            /\ pc' = "load"
            /\ UNCHANGED <<data, changed, exc, result>>
       ELSE Leave("FileNotFoundError")
    /\ UNCHANGED <<fs, leaked, args, pre, ncalls, prev, fs0, bakFailed, tmpMade, rmFailed, rd, nfaults>>

\* line 104: data = load_plist(path)
Load ==
    /\ pc = "load"
    /\ IF Parses(fs.path)
       THEN /\ data' = load_plist(fs.path)
            /\ pc' = "ensure"
            /\ UNCHANGED <<fmt, changed, exc, result>>
       ELSE Leave("ParseError")
    /\ UNCHANGED <<fs, leaked, args, pre, ncalls, prev, fs0, bakFailed, tmpMade, rmFailed, rd, nfaults>>

\* line 105: target = ensure_path_dict(data, key_path or [])
Ensure ==
    /\ pc = "ensure"
    /\ LET e == ensure_path_dict(data, args.key_path)
       IN  IF e.ok
           THEN /\ data' = e.data
                /\ pc' = "setkeys"
                /\ UNCHANGED <<fmt, changed, exc, result>>
           ELSE Leave("ValueError")
    /\ UNCHANGED <<fs, leaked, args, pre, ncalls, prev, fs0, bakFailed, tmpMade, rmFailed, rd, nfaults>>

\* Faulty variant: the backup step is skipped.
AfterSetKeysNoBackup(ch, make_backup) == IF ~ch THEN "return" ELSE "mkstemp"

\* lines 111-115: where update_plist goes once the change flag is known.
AfterSetKeys(ch, make_backup) ==
    IF ~ch THEN "return" ELSE IF make_backup THEN "backup" ELSE "mkstemp"

\* lines 106-112: the two conditional assignments and the early return.
SetKeys ==
    /\ pc = "setkeys"
    /\ LET s1 == set_key_if_changed(data, args.key_path, prod_key(args.key_names),
                                    args.product_version)
           s2 == set_key_if_changed(s1.data, args.key_path, build_key(args.key_names),
                                    args.build_version)
           ch == s1.changed \/ s2.changed
           to == AfterSetKeys(ch, args.make_backup)
       IN  IF to = "return"
           THEN Leave("False")
           ELSE /\ data' = s2.data
                /\ changed' = ch
                /\ pc' = to
                /\ UNCHANGED <<fmt, exc, result>>
    /\ UNCHANGED <<fs, leaked, args, pre, ncalls, prev, fs0, bakFailed, tmpMade, rmFailed, rd, nfaults>>

\* Faulty variant: an existing backup is overwritten.
BackupCopiesAlways(bak) == TRUE

\* backup_file (lines 71-75): whether shutil.copy2 runs.
BackupCopies(bak) == ~bak.exists

\* lines 113-114, the copy succeeding or not being needed.
Backup ==
    /\ pc = "backup"
    /\ fs' = IF BackupCopies(fs.bak) THEN [fs EXCEPT !.bak = fs.path] ELSE fs
    /\ pc' = "mkstemp"
    /\ UNCHANGED <<leaked, args, fmt, data, changed, exc, result, pre, ncalls,
                   prev, fs0, bakFailed, tmpMade, rmFailed, rd, nfaults>>

\* What a failing shutil.copy2 leaves at the destination: nothing (the open
\* failed), a truncated copy (the write failed), or the bytes without the
\* metadata (copystat failed).
CopyLeftovers(src) ==
    {NoFile,
     [src EXCEPT !.whole = FALSE, !.mode = DefaultMode],
     [src EXCEPT !.mode = DefaultMode]}

\* lines 113-114, shutil.copy2 raising: update_plist propagates the error.
BackupFails ==
    /\ pc = "backup"
    /\ Fault
    /\ BackupCopies(fs.bak)
    /\ \E left \in CopyLeftovers(fs.path) : fs' = [fs EXCEPT !.bak = left]
    /\ bakFailed' = TRUE
    /\ Leave("OSError")
    /\ UNCHANGED <<leaked, args, pre, ncalls, prev, fs0, tmpMade, rmFailed, rd>>

\* line 50-51: tempfile.mkstemp creates an empty file in the target's directory.
Mkstemp ==
    /\ pc = "mkstemp"
    /\ fs' = [fs EXCEPT !.tmp = MkFile("", EmptyDict, FALSE, TmpMode)]
    /\ tmpMade' = TRUE
    /\ pc' = "dump"
    /\ UNCHANGED <<leaked, args, fmt, data, changed, exc, result, pre, ncalls,
                   prev, fs0, bakFailed, rmFailed, rd, nfaults>>

\* line 50 raising: outside the try block, nothing to clean up.
MkstempFails ==
    /\ pc = "mkstemp"
    /\ Fault
    /\ Leave("OSError")
    /\ UNCHANGED <<fs, leaked, args, pre, ncalls, prev, fs0, bakFailed, tmpMade, rmFailed, rd>>

\* Faulty variant: the document is serialized straight into the target.
DumpIntoTarget == "path"

\* line 53: the file plistlib.dump writes into.
DumpInto == "tmp"

\* lines 53-54: the document is serialized in format fmt.
Dump ==
    /\ pc = "dump"
    /\ fs' = [fs EXCEPT ![DumpInto] =
                MkFile(HeaderOf(fmt), BodyOf(data, fmt), TRUE,
                       IF fs[DumpInto].exists THEN fs[DumpInto].mode ELSE DefaultMode)]
    /\ pc' = "chmod"
    /\ UNCHANGED <<leaked, args, fmt, data, changed, exc, result, pre, ncalls,
                   prev, fs0, bakFailed, tmpMade, rmFailed, rd, nfaults>>

\* lines 53-54 raising: open() failed (the file is as it was) or a write
\* failed (the file holds a truncated serialization).
DumpFails ==
    /\ pc = "dump"
    /\ Fault
    /\ \/ fs' = fs
       \/ fs' = [fs EXCEPT ![DumpInto] =
                    MkFile(HeaderOf(fmt), BodyOf(data, fmt), FALSE,
                           IF fs[DumpInto].exists THEN fs[DumpInto].mode ELSE DefaultMode)]
    /\ exc' = TRUE
    /\ pc' = "cleanup"
    /\ UNCHANGED <<leaked, args, fmt, data, changed, result, pre, ncalls,
                   prev, fs0, bakFailed, tmpMade, rmFailed, rd>>

\* lines 56-60: the target's mode is copied; a vanished target is skipped.
Chmod ==
    /\ pc = "chmod"
    /\ fs' = IF fs.path.exists THEN [fs EXCEPT !.tmp.mode = fs.path.mode] ELSE fs
    /\ pc' = "replace"
    /\ UNCHANGED <<leaked, args, fmt, data, changed, exc, result, pre, ncalls,
                   prev, fs0, bakFailed, tmpMade, rmFailed, rd, nfaults>>

\* lines 57-58 raising anything but FileNotFoundError.
ChmodFails ==
    /\ pc = "chmod"
    /\ Fault
    /\ exc' = TRUE
    /\ pc' = "cleanup"
    /\ UNCHANGED <<fs, leaked, args, fmt, data, changed, result, pre, ncalls,
                   prev, fs0, bakFailed, tmpMade, rmFailed, rd>>

\* line 61: os.replace renames the temporary file over the target.
Replace ==
    /\ pc = "replace"
    /\ fs' = [fs EXCEPT !.path = fs.tmp, !.tmp = NoFile]
    /\ pc' = "cleanup"
    /\ UNCHANGED <<leaked, args, fmt, data, changed, exc, result, pre, ncalls,
                   prev, fs0, bakFailed, tmpMade, rmFailed, rd, nfaults>>

\* line 61 raising: the rename did not happen.
ReplaceFails ==
    /\ pc = "replace"
    /\ Fault
    /\ exc' = TRUE
    /\ pc' = "cleanup"
    /\ UNCHANGED <<fs, leaked, args, fmt, data, changed, result, pre, ncalls,
                   prev, fs0, bakFailed, tmpMade, rmFailed, rd>>

\* Faulty variant: the cleanup leaves the file.
NotRemoved(f) == f

\* lines 65-66: what is at tmp_path once the finally block's os.remove ran.
Removed(f) == NoFile

\* lines 62-68 and 116: the finally block removes what is left of the
\* temporary file, then the pending exception propagates or True is returned.
Cleanup ==
    /\ pc = "cleanup"
    /\ fs' = IF fs.tmp.exists THEN [fs EXCEPT !.tmp = Removed(fs.tmp)] ELSE fs
    /\ Leave(IF exc THEN "OSError" ELSE "True")
    /\ UNCHANGED <<leaked, args, pre, ncalls, prev, fs0, bakFailed, tmpMade, rmFailed, rd, nfaults>>

\* lines 64-68 with os.remove raising: the error is swallowed.
CleanupRemoveFails ==
    /\ pc = "cleanup"
    /\ Fault
    /\ fs.tmp.exists
    /\ rmFailed' = TRUE
    /\ Leave(IF exc THEN "OSError" ELSE "True")
    /\ UNCHANGED <<fs, leaked, args, pre, ncalls, prev, fs0, bakFailed, tmpMade, rd>>

\* read_versions (lines 154-169) on the bundle's plist.  main reads before it
\* updates (lines 171-173, then 208-227).
ReadVersions(key_path, allow_alias) ==
    /\ pc \in {"idle", "done"}
    /\ ncalls < MaxCalls
    /\ rd' = IF ~fs.path.exists
             THEN [NoRead EXCEPT !.status = "FileNotFoundError"]
             ELSE IF ~Parses(fs.path)
             THEN [NoRead EXCEPT !.status = "ParseError"]
             ELSE LET w == ReadWalk(load_plist(fs.path), key_path)
                      l == ReadLeaves(w.node, allow_alias)
                  IN  [status |-> "ok", data |-> w.data, pv |-> l.pv, bv |-> l.bv,
                       key_path |-> key_path, allow_alias |-> allow_alias]
    /\ rd' # rd
    /\ UNCHANGED <<fs, leaked, pc, args, fmt, data, changed, exc, result, pre,
                   ncalls, prev, fs0, bakFailed, tmpMade, rmFailed, nfaults>>

Next ==
    \/ \E a \in ArgSets : Call(a)
    \/ Detect
    \/ Load
    \/ Ensure
    \/ SetKeys
    \/ Backup
    \/ BackupFails
    \/ Mkstemp
    \/ MkstempFails
    \/ Dump
    \/ DumpFails
    \/ Chmod
    \/ ChmodFails
    \/ Replace
    \/ ReplaceFails
    \/ Cleanup
    \/ CleanupRemoveFails
    \/ \E kp \in KeyPaths, alias \in BOOLEAN : ReadVersions(kp, alias)

Spec == Init /\ [][Next]_vars

\* ------------------------------------------------------------ properties

\* What the properties read off a call, stated without the operators above.
IsBinary(f) == f.header = "bplist00"
Content(f) == [header |-> f.header, body |-> f.body, whole |-> f.whole]
PreDoc == pre.path.body
ProdPath == args.key_path \o <<prod_key(args.key_names)>>
BuildPath == args.key_path \o <<build_key(args.key_names)>>
PathPrefixes == {SubSeq(args.key_path, 1, i) : i \in 0..Len(args.key_path)}

\* A text as the writer of the file's format stores it.
Stored(s, f) == IF IsBinary(f) THEN s ELSE Escape(s)

\* Some segment of the key path exists in the loaded document and is no mapping.
Collides ==
    \E p \in PathPrefixes : p \in DOMAIN PreDoc /\ PreDoc[p].kind # "dict"

\* The leaf at path p of the loaded document differs from target text s.
LeafDiffers(p, s) == ~(p \in DOMAIN PreDoc /\ PreDoc[p] = StrNode(s))
ProdDiffers == LeafDiffers(ProdPath, args.product_version)
BuildDiffers == LeafDiffers(BuildPath, args.build_version)

\* The document update_plist hands to the writer: the loaded one with the key
\* path's mappings present and the two leaves holding the targets.
ExpectedDoc ==
    LET keep == {r \in DOMAIN PreDoc : ~IsPrefix(ProdPath, r) /\ ~IsPrefix(BuildPath, r)}
    IN  [r \in keep \cup PathPrefixes \cup {ProdPath, BuildPath} |->
            IF r = ProdPath THEN StrNode(args.product_version)
            ELSE IF r = BuildPath THEN StrNode(args.build_version)
            ELSE IF r \in DOMAIN PreDoc THEN PreDoc[r]
            ELSE DictNode]

\* The complete serialization of that document in the format the file had.
PostContent ==
    [header |-> IF IsBinary(pre.path) THEN "bplist00" ELSE "<?xml ve",
     body   |-> [r \in DOMAIN ExpectedDoc |->
                   IF ExpectedDoc[r].kind = "str"
                   THEN StrNode(Stored(ExpectedDoc[r].s, pre.path))
                   ELSE ExpectedDoc[r]],
     whole  |-> TRUE]

InWriterPcs == {"mkstemp", "dump", "chmod", "replace", "cleanup"}
InWriter == pc \in InWriterPcs
Loaded == pc # "idle" /\ pre.path.exists /\ pre.path.whole

\* C1: during and after the atomic write the target file is the complete
\* pre-update file or the complete post-update serialization, never a partial
\* one, and whenever the call fails the target is exactly as it was before.
C1_AtomicTarget ==
    /\ \/ fs.path = pre.path
       \/ /\ Content(fs.path) = PostContent
          /\ fs.path.exists
          /\ pc \in {"cleanup", "done"}
    /\ (pc = "done" /\ result # "True") => fs.path = pre.path
    /\ (pc = "done" /\ result = "True") => Content(fs.path) = PostContent

\* C1 witness: a call that failed inside the writer, after the temporary file
\* held a complete serialization, has ended.
C1_Witness ==
    /\ pc = "done" /\ result = "OSError" /\ tmpMade
    /\ fs.tmp.exists /\ fs.tmp.whole
    /\ fs.path = pre.path

\* C3: the file keeps its format: whatever updates ran, a file that started
\* Binary is still detected Binary and one that started Text still Text, and
\* the tag the writer is given is the one of the file as loaded.
C3_FormatKept ==
    /\ (fs.path.exists /\ fs0.path.exists) => (IsBinary(fs.path) <=> IsBinary(fs0.path))
    /\ InWriter => (fmt = FMT_BINARY <=> IsBinary(pre.path))
    /\ \A f \in {fs.tmp} \cup leaked :
          (f.exists /\ f.header # "") => (IsBinary(f) <=> IsBinary(fs0.path))

\* C3 witness: a Binary file has been rewritten twice with new contents.
C3_Witness ==
    /\ IsBinary(fs0.path) /\ ncalls = 2
    /\ pc = "done" /\ result = "True"
    /\ fs.path # pre.path /\ pre.path # fs0.path

\* C4: when a segment of the key path exists and is no mapping, update_plist
\* raises ValueError and the directory (target, backup, temporary file) is
\* never touched, backups enabled or not.
C4_StructuralSafety ==
    (Loaded /\ Collides) =>
        /\ fs = pre
        /\ ~tmpMade
        /\ pc \in {"detect", "load", "ensure", "done"}
        /\ pc = "done" => result = "ValueError"

\* C4 witness: such a call, made with backups enabled and no backup present,
\* has ended.
C4_Witness ==
    /\ Loaded /\ Collides /\ pc = "done"
    /\ args.make_backup /\ ~pre.bak.exists
    /\ Len(args.key_path) = 2

\* C5: once path.bak exists, no step of any later call changes it.
C5_BackupKept == [][fs.bak.exists => fs'.bak = fs.bak]_vars

\* C5 witness: a backup made by an earlier update survived a later update that
\* ran with backups enabled and rewrote the target.
C5_Witness ==
    /\ ~fs0.bak.exists /\ pre.bak.exists /\ fs.bak = pre.bak
    /\ args.make_backup /\ pc = "done" /\ result = "True"
    /\ fs.path # pre.path

\* C2: a call that repeats the arguments of the call before it, which returned
\* True, returns False, and at no step of it does the directory differ from
\* what the first call left: no write, no backup, no temporary file.
C2_Idempotent ==
    (prev = "True") =>
        /\ fs = pre
        /\ ~tmpMade
        /\ pc = "done" => result = "False"

C7_ChangeFlag ==
    (Loaded /\ ~Collides) =>
        /\ (pc = "done" /\ result = "True") => (ProdDiffers \/ BuildDiffers)
        /\ (pc = "done" /\ result = "False") => ~(ProdDiffers \/ BuildDiffers)
        /\ (pc \in {"backup"} \cup InWriterPcs) => (changed /\ (ProdDiffers \/ BuildDiffers))
        /\ (pc = "done" /\ result = "True") => Content(fs.path) = PostContent
        /\ ~(ProdDiffers \/ BuildDiffers) =>
              /\ fs = pre
              /\ ~tmpMade
              /\ pc = "done" => result = "False"

\* C7 witness: a call with backups enabled, no backup present and both targets
\* already in place has returned False.
C7_Witness ==
    /\ Loaded /\ ~Collides /\ ~ProdDiffers /\ ~BuildDiffers
    /\ pc = "done" /\ result = "False"
    /\ args.make_backup /\ ~fs.bak.exists

ReadResolves(d, kp) == kp \in DOMAIN d /\ d[kp].kind = "dict"
ReadExpected(d, kp, name, alias_name, allow_alias) ==
    IF ~ReadResolves(d, kp) THEN NoneValue
    ELSE IF kp \o <<name>> \in DOMAIN d THEN SubTree(d, kp \o <<name>>)
    ELSE IF allow_alias /\ kp \o <<alias_name>> \in DOMAIN d THEN SubTree(d, kp \o <<alias_name>>)
    ELSE NoneValue

\* C9: read_versions returns the two leaves or None and leaves both the
\* document it loaded and the directory as they were: no mapping is created at
\* a missing segment, whereas after ensure_path_dict every segment of the key
\* path is a mapping of the document.
C9_ReadNeverMutates ==
    /\ [](rd.status = "ok" =>
            /\ rd.data = fs.path.body
            /\ rd.pv = ReadExpected(fs.path.body, rd.key_path, "Product Version",
                                    "ProductVersion", rd.allow_alias)
            /\ rd.bv = ReadExpected(fs.path.body, rd.key_path, "Build Version",
                                    "BuildVersion", rd.allow_alias))
    /\ [](pc = "setkeys" =>
            \A p \in PathPrefixes : p \in DOMAIN data /\ data[p].kind = "dict")
    /\ [][rd' # rd /\ rd'.status # "none" => fs' = fs /\ leaked' = leaked]_vars

\* C9 witness: a read along a key path whose first segment is missing from the
\* document has returned.
C9_Witness ==
    /\ rd.status = "ok" /\ Len(rd.key_path) = 2
    /\ <<"Lockdown">> \notin DOMAIN fs.path.body
    /\ rd.pv = NoneValue

\* C10: in a call with backups enabled that starts with no backup present, the
\* backup holds the pre-update file before the writer starts and whenever the
\* target differs from what it was; if the copy fails the call raises and the
\* target is not written.
C10_BackupFirst ==
    /\ (pc # "idle" /\ args.make_backup /\ ~pre.bak.exists) =>
          /\ InWriter => fs.bak = pre.path
          /\ fs.path # pre.path => fs.bak = pre.path
    /\ bakFailed =>
          /\ pc = "done" /\ result = "OSError"
          /\ fs.path = pre.path
          /\ ~tmpMade

\* C10 witness: such a call has rewritten the target.
C10_Witness ==
    /\ args.make_backup /\ ~pre.bak.exists
    /\ pc = "done" /\ result = "True"
    /\ fs.path # pre.path /\ fs.bak = pre.path

====
